---- MODULE Spec2Model ----
(***************************************************************************)
(* Progressive-overload engine and workout logging of the hypertrophy      *)
(* tracker (src/app.py).                                                   *)
(*                                                                         *)
(* Units.  Python floats are modelled by integers:                         *)
(*   - a logged weight is a whole number of quarter pounds (0.25 lb), so   *)
(*     every modelled weight and every sum weight + increment is exactly   *)
(*     representable as a binary float;                                    *)
(*   - a value returned by round(x, 1) is a whole number of tenths.        *)
(* Python's None is the integer None (no real value is negative).          *)
(***************************************************************************)
EXTENDS Integers, Sequences, FiniteSets, TLC

VARIABLES
    eng,              \* the engine call under examination (inputs, result)
    today,            \* date.today(), in days
    workout,          \* rows of table workout
    set_log,          \* rows of table set_log
    next_workout_id,  \* primary-key sequence of workout
    next_set_log_id,  \* primary-key sequence of set_log
    program,          \* rows of table program
    program_day,      \* rows of table program_day
    program_exercise, \* rows of table program_exercise
    next_program_id,  \* primary-key sequence of program
    next_program_day_id,      \* primary-key sequence of program_day
    next_program_exercise_id, \* primary-key sequence of program_exercise
    req,              \* log_program_day POST requests in flight
    user,             \* rows of table user
    next_user_id,     \* primary-key sequence of user
    outbox,           \* tokens made by _make_token and mailed
    verifications     \* history: ids of the users verify_email has verified

engine_vars == <<eng>>
auth_vars == <<user, next_user_id, outbox, verifications>>
program_vars == <<program, program_day, program_exercise, next_program_id,
                  next_program_day_id, next_program_exercise_id>>
log_vars == <<workout, set_log, next_workout_id, next_set_log_id, req>>
store_vars == <<today, workout, set_log, next_workout_id, next_set_log_id,
                program, program_day, program_exercise, next_program_id,
                next_program_day_id, next_program_exercise_id, req,
                user, next_user_id, outbox, verifications>>
vars == <<eng, today, workout, set_log, next_workout_id, next_set_log_id,
          program, program_day, program_exercise, next_program_id,
          next_program_day_id, next_program_exercise_id, req,
          user, next_user_id, outbox, verifications>>

----------------------------------------------------------------------------
(* Bounds *)

MaxLen == 2          \* sets in a last session handed to the engine
MaxReps == 3         \* reps of a set, and rep_min / rep_max of a range
MaxWeightQ == 3      \* weight of a set, in quarter pounds
MaxTargetSets == 6   \* target_sets of a program exercise
MaxWorkouts == 2     \* workout rows ever inserted
MaxSetLogs == 3      \* set_log rows ever inserted
MaxDate == 2         \* last day the clock reaches
MaxFormReps == 2     \* greatest reps typed into the logging form
MaxFormWeightQ == 1  \* greatest weight typed into the form, quarter pounds
MaxWeeks == 2        \* greatest duration_weeks and week typed into a form
MaxDaysPerWeek == 1  \* greatest days_per_week typed into the form
MaxPrograms == 2     \* program rows ever inserted
MaxProgramExercises == 2 \* program_exercise rows ever inserted
MaxProgramDays == 3  \* program_day rows ever inserted by add_day and before
MaxEditSets == 2     \* greatest target_sets / new_sets typed into the form
MaxEditReps == 2     \* greatest rep_min / rep_max typed into the form
MaxProgramDate == 16 \* last day the clock reaches when it runs by weeks

None == 0 - 1

\* a form field that int() / float() cannot parse
Unparsable == 0 - 2

Users == {1, 2}

\* log_program_day requests that may be in flight together
Requests == {1, 2}

IdleRequest == [pc |-> "idle"]

(* Accounts *)

MaxUsers == 2        \* user rows ever inserted by signup
MaxTokens == 2       \* tokens ever mailed

\* werkzeug's generate_password_hash: the hash holds what check needs to
\* recognise the raw password, and nothing else recognises it
generate_password_hash(raw) == <<"pbkdf2", raw>>

check_password_hash(pwhash, raw) == pwhash = generate_password_hash(raw)

\* The users of the training pages have signed up, verified their e-mail
\* address and logged in.
RegisteredUsers ==
    /\ user = {[id |-> u, email |-> "user" \o ToString(u) \o "@x.io",
                password_hash |-> generate_password_hash("letmein"),
                is_email_verified |-> TRUE] : u \in Users}
    /\ next_user_id = 3
    /\ outbox = {}
    /\ verifications = Users

\* two rows of the seeded catalog: Bench Press and Back Squat
Exercise ==
    {[id |-> 1, muscle_group |-> "chest"], [id |-> 2, muscle_group |-> "legs"]}

----------------------------------------------------------------------------
(* Helpers of the engine *)

MaxOf(S) == CHOOSE x \in S : \A y \in S : y <= x

MinOf(S) == CHOOSE x \in S : \A y \in S : x <= y

\* round(x, 1) of the float holding q quarter pounds, in tenths of a pound.
\* q/4 is exact in binary, so Python rounds the exact value 2.5*q tenths,
\* a tie going to the even tenth.
Round1(q) ==
    IF q % 2 = 0 THEN (5 * q) \div 2
    ELSE LET n == (5 * q - 1) \div 2
         IN  IF n % 2 = 0 THEN n ELSE n + 1

\* faulty variant: floor in place of ceil
CeilSixTenths_floor(target_sets) == (3 * target_sets) \div 5

\* ceil(x) of the float product target_sets * 0.6.
CeilSixTenths(target_sets) == (3 * target_sets + 4) \div 5

MuscleGroups == {"legs", "chest", "back", "shoulders", "biceps", "triceps",
                 "calves", "forearms", "glutes"}

\* The increment table, in quarter pounds.
INCREMENT_LBS ==
    [g \in {"legs", "chest", "back", "shoulders", "biceps", "triceps",
            "calves", "forearms"} |->
        IF g \in {"legs", "calves"} THEN 20 ELSE 10]

\* faulty variant: the default increment is that of the legs
IncrementGet_default_five(muscle_group) ==
    IF muscle_group \in DOMAIN INCREMENT_LBS
    THEN INCREMENT_LBS[muscle_group]
    ELSE 20

\* INCREMENT_LBS.get(muscle_group, 2.5)
IncrementGet(muscle_group) ==
    IF muscle_group \in DOMAIN INCREMENT_LBS
    THEN INCREMENT_LBS[muscle_group]
    ELSE 10

\* faulty variant: the rep target repeats the best reps instead of adding one
compute_session_targets_no_step(last_sets, rep_min, rep_max, exercise, deload) ==
    IF last_sets = << >>
    THEN <<rep_min, None, None>>
    ELSE LET best_reps == MaxOf({last_sets[i].reps : i \in DOMAIN last_sets})
             last_top_weight ==
                 MaxOf({last_sets[i].weight : i \in DOMAIN last_sets})
         IN  IF best_reps >= rep_max
             THEN LET inc == IncrementGet(exercise.muscle_group)
                  IN  <<rep_min, Round1(last_top_weight + inc), last_top_weight>>
             ELSE <<MinOf({best_reps, rep_max}), None, last_top_weight>>

\* faulty variant: without history the target is the top of the range
compute_session_targets_empty_top(last_sets, rep_min, rep_max, exercise, deload) ==
    IF last_sets = << >>
    THEN <<rep_max, None, None>>
    ELSE LET best_reps == MaxOf({last_sets[i].reps : i \in DOMAIN last_sets})
             last_top_weight ==
                 MaxOf({last_sets[i].weight : i \in DOMAIN last_sets})
         IN  IF best_reps >= rep_max
             THEN LET inc == IncrementGet(exercise.muscle_group)
                  IN  <<rep_min, Round1(last_top_weight + inc), last_top_weight>>
             ELSE <<MinOf({best_reps + 1, rep_max}), None, last_top_weight>>

\* faulty variant: a deload week suggests no heavier weight
compute_session_targets_deload(last_sets, rep_min, rep_max, exercise, deload) ==
    IF last_sets = << >>
    THEN <<rep_min, None, None>>
    ELSE LET best_reps == MaxOf({last_sets[i].reps : i \in DOMAIN last_sets})
             last_top_weight ==
                 MaxOf({last_sets[i].weight : i \in DOMAIN last_sets})
         IN  IF best_reps >= rep_max /\ ~deload
             THEN LET inc == IncrementGet(exercise.muscle_group)
                  IN  <<rep_min, Round1(last_top_weight + inc), last_top_weight>>
             ELSE <<MinOf({best_reps + 1, rep_max}), None, last_top_weight>>

\* compute_session_targets, with last_sets the value of
\* get_last_session_sets(uid, exercise.id); the result is
\* <<rep_target, suggested weight (tenths), last_top_weight (quarters)>>.
compute_session_targets(last_sets, rep_min, rep_max, exercise, deload) ==
    IF last_sets = << >>
    THEN <<rep_min, None, None>>
    ELSE LET best_reps == MaxOf({last_sets[i].reps : i \in DOMAIN last_sets})
             last_top_weight ==
                 MaxOf({last_sets[i].weight : i \in DOMAIN last_sets})
         IN  IF best_reps >= rep_max
             THEN LET inc == IncrementGet(exercise.muscle_group)
                  IN  <<rep_min, Round1(last_top_weight + inc), last_top_weight>>
             ELSE <<MinOf({best_reps + 1, rep_max}), None, last_top_weight>>

\* faulty variant: the weight comparison is lost
mark_progress_reps_only(rep_target, reps, weight, last_top_weight) ==
    reps >= rep_target

\* faulty variant: an equal weight counts as an increase
mark_progress_geq(rep_target, reps, weight, last_top_weight) ==
    IF last_top_weight # None /\ weight >= last_top_weight
    THEN TRUE
    ELSE reps >= rep_target

mark_progress(rep_target, reps, weight, last_top_weight) ==
    IF last_top_weight # None /\ weight > last_top_weight
    THEN TRUE
    ELSE reps >= rep_target

\* faulty variant: the deload week is not looked at
sets_this_session_post_full(target_sets, deload_now) ==
    target_sets

\* sets_this_session as the POST branch of log_program_day computes it
sets_this_session_post(target_sets, deload_now) ==
    IF deload_now THEN MaxOf({1, CeilSixTenths(target_sets)}) ELSE target_sets

\* sets_this_session as the GET branch of log_program_day computes it
sets_this_session_get(target_sets, deload_now) ==
    IF deload_now THEN MaxOf({1, CeilSixTenths(target_sets)}) ELSE target_sets

----------------------------------------------------------------------------
(* The engine applied to inputs drawn from bounded sets *)

EngineSets == [reps : 1..MaxReps, weight : 1..MaxWeightQ]

Histories == UNION {[1..n -> EngineSets] : n \in 0..MaxLen}

TargetInput(h, lo, hi, g, d) ==
    [op |-> "targets_in", last_sets |-> h, rep_min |-> lo, rep_max |-> hi,
     exercise |-> [id |-> 1, muscle_group |-> g], deload |-> d]

ProgressInputs ==
    [op : {"progress_in"}, rep_target : 1..MaxReps, reps : 1..MaxReps,
     weight : 1..MaxWeightQ, last_top_weight : {None} \cup 1..MaxWeightQ]

SetsInputs ==
    [op : {"sets_in"}, target_sets : 1..MaxTargetSets, deload_now : BOOLEAN]

InitStore ==
    /\ today = 1
    /\ workout = {}
    /\ set_log = {}
    /\ next_workout_id = 1
    /\ next_set_log_id = 1
    /\ program = {}
    /\ program_day = {}
    /\ program_exercise = {}
    /\ next_program_id = 1
    /\ next_program_day_id = 1
    /\ next_program_exercise_id = 1
    /\ req = [r \in Requests |-> IdleRequest]
    /\ RegisteredUsers

InitEngine ==
    /\ \/ \E h \in Histories, lo \in 1..MaxReps, g \in MuscleGroups,
             d \in BOOLEAN :
              \E hi \in lo..MaxReps : eng = TargetInput(h, lo, hi, g, d)
       \/ eng \in ProgressInputs
       \/ eng \in SetsInputs
    /\ InitStore

CallComputeSessionTargets ==
    /\ eng.op = "targets_in"
    /\ eng' = [op |-> "targets", last_sets |-> eng.last_sets,
               rep_min |-> eng.rep_min, rep_max |-> eng.rep_max,
               exercise |-> eng.exercise, deload |-> eng.deload,
               targets |-> compute_session_targets(eng.last_sets, eng.rep_min,
                               eng.rep_max, eng.exercise, eng.deload)]
    /\ UNCHANGED store_vars

CallMarkProgress ==
    /\ eng.op = "progress_in"
    /\ eng' = [op |-> "progress", rep_target |-> eng.rep_target,
               reps |-> eng.reps, weight |-> eng.weight,
               last_top_weight |-> eng.last_top_weight,
               progressed |-> mark_progress(eng.rep_target, eng.reps,
                                            eng.weight, eng.last_top_weight)]
    /\ UNCHANGED store_vars

CallSetsThisSession ==
    /\ eng.op = "sets_in"
    /\ eng' = [op |-> "sets", target_sets |-> eng.target_sets,
               deload_now |-> eng.deload_now,
               post |-> sets_this_session_post(eng.target_sets, eng.deload_now),
               get |-> sets_this_session_get(eng.target_sets, eng.deload_now)]
    /\ UNCHANGED store_vars

NextEngine ==
    \/ CallComputeSessionTargets
    \/ CallMarkProgress
    \/ CallSetsThisSession

SpecEngine == InitEngine /\ [][NextEngine]_vars

----------------------------------------------------------------------------
(* Properties of the engine, checked under SpecEngine *)

\* b is the greatest reps of the sets of h
IsBestReps(h, b) ==
    /\ \E i \in DOMAIN h : h[i].reps = b
    /\ \A i \in DOMAIN h : h[i].reps <= b

\* w is the greatest weight of the sets of h
IsTopWeight(h, w) ==
    /\ \E i \in DOMAIN h : h[i].weight = w
    /\ \A i \in DOMAIN h : h[i].weight <= w

\* t tenths of a pound is q quarter pounds rounded to one decimal: no tenth
\* is nearer, and of two tenths equally near the even one is taken
\* (distances in twentieths of a pound)
IsRoundedToOneDecimal(t, q) ==
    /\ 2 * t - 5 * q \in {0 - 1, 0, 1}
    /\ (2 * t # 5 * q) => (t % 2 = 0)

Targeted == eng.op = "targets"

\* C1: the rep_target returned by compute_session_targets lies in
\* [rep_min, rep_max] for every range with rep_min <= rep_max and every last
\* session.
C1_RepTargetInRange ==
    Targeted => /\ eng.rep_min <= eng.targets[1]
                /\ eng.targets[1] <= eng.rep_max

\* C2: for a non-empty last session whose best reps are below rep_max the
\* result is rep_target = min(best_reps + 1, rep_max), no suggested weight,
\* and last_top_weight = the greatest weight of the session.
C2_ProgressOneRep ==
    \A b \in 1..MaxReps :
        (Targeted /\ IsBestReps(eng.last_sets, b) /\ b < eng.rep_max) =>
            /\ eng.targets[1] <= b + 1
            /\ eng.targets[1] <= eng.rep_max
            /\ eng.targets[1] \in {b + 1, eng.rep_max}
            /\ eng.targets[2] = None
            /\ IsTopWeight(eng.last_sets, eng.targets[3])

C2_Witness ==
    /\ Targeted
    /\ Len(eng.last_sets) = 2
    /\ eng.last_sets[1].reps > eng.last_sets[2].reps
    /\ eng.last_sets[1].weight < eng.last_sets[2].weight
    /\ eng.last_sets[1].reps < eng.rep_max
    /\ eng.targets[1] = eng.last_sets[1].reps + 1

\* C3: for a non-empty last session whose best reps reach or exceed rep_max
\* the result is rep_target = rep_min, last_top_weight = the greatest weight
\* of the session, and suggested weight = last_top_weight + increment rounded
\* to one decimal, the increment being 5.0 lb (20 quarters) for legs and
\* calves and 2.5 lb (10 quarters) for every other muscle group, listed or
\* not.
C3_AddLoad ==
    \A b \in 1..MaxReps :
        (Targeted /\ IsBestReps(eng.last_sets, b) /\ b >= eng.rep_max) =>
            /\ eng.targets[1] = eng.rep_min
            /\ IsTopWeight(eng.last_sets, eng.targets[3])
            /\ LET increment ==
                       IF eng.exercise.muscle_group \in {"legs", "calves"}
                       THEN 20 ELSE 10
               IN  IsRoundedToOneDecimal(eng.targets[2],
                                         eng.targets[3] + increment)

C3_Witness ==
    /\ Targeted
    /\ Len(eng.last_sets) = 2
    /\ eng.last_sets[2].reps > eng.rep_max
    /\ eng.last_sets[1].reps < eng.rep_max
    /\ eng.last_sets[1].weight > eng.last_sets[2].weight
    /\ eng.exercise.muscle_group = "glutes"
    /\ eng.targets[3] % 2 = 1
    /\ eng.targets[2] # None

\* C4: with no logged set (empty history) the result is rep_target = rep_min
\* and neither a suggested weight nor a last top weight, for every range and
\* deload flag.
C4_EmptyHistory ==
    (Targeted /\ eng.last_sets = << >>) =>
        eng.targets = <<eng.rep_min, None, None>>

C4_Witness ==
    /\ Targeted
    /\ eng.last_sets = << >>
    /\ eng.deload
    /\ eng.rep_min > 1
    /\ eng.rep_min < eng.rep_max

Classified == eng.op = "progress"

\* C5: mark_progress is true whenever last_top_weight is known and the
\* weight exceeds it, whatever reps and rep_target are.
C5_WeightIncreaseIsProgress ==
    (Classified /\ eng.last_top_weight # None
                /\ eng.weight > eng.last_top_weight) => eng.progressed

C5_Witness ==
    /\ Classified
    /\ eng.last_top_weight # None
    /\ eng.weight > eng.last_top_weight
    /\ eng.reps < eng.rep_target
    /\ eng.progressed

\* C6: when last_top_weight is unknown or the weight does not exceed it,
\* mark_progress is true exactly when reps >= rep_target.
C6_OtherwiseRepsDecide ==
    (Classified /\ (eng.last_top_weight = None
                     \/ eng.weight <= eng.last_top_weight)) =>
        (eng.progressed <=> eng.reps >= eng.rep_target)

C6_Witness ==
    /\ Classified
    /\ eng.last_top_weight # None
    /\ eng.weight = eng.last_top_weight
    /\ eng.reps < eng.rep_target
    /\ ~eng.progressed

\* C7: the number of sets prescribed is target_sets outside a deload week
\* and ceil(0.6 * target_sets), at least 1, in a deload week; it lies in
\* 1..target_sets; the form rendering (GET) and the saving (POST) compute
\* the same number.
C7_SetsThisSession ==
    eng.op = "sets" =>
        /\ ~eng.deload_now => eng.post = eng.target_sets
        /\ eng.deload_now =>
               /\ 5 * eng.post >= 3 * eng.target_sets
               /\ 5 * (eng.post - 1) < 3 * eng.target_sets
        /\ eng.post >= 1
        /\ eng.post <= eng.target_sets
        /\ eng.get = eng.post

C7_Witness ==
    /\ eng.op = "sets"
    /\ eng.deload_now
    /\ eng.target_sets = 5
    /\ eng.post = 3

\* C8: the deload flag does not influence the targets: with the same range,
\* exercise and history, the call with deload = true returns what the call
\* with deload = false returns.
C8_DeloadDoesNotChangeTargets ==
    Targeted =>
        eng.targets = compute_session_targets(eng.last_sets, eng.rep_min,
                          eng.rep_max, eng.exercise, ~eng.deload)

C8_Witness ==
    /\ Targeted
    /\ eng.deload
    /\ eng.last_sets # << >>
    /\ eng.targets[2] # None

----------------------------------------------------------------------------
(* The store and the logging of a program day *)

ExerciseIds == {e.id : e \in Exercise}

ExerciseOf(exercise_id) == CHOOSE e \in Exercise : e.id = exercise_id

\* rows a database session sees: the committed ones (txn = 0) and those
\* its own transaction wrote
Visible(rows, txn) == {x \in rows : x.txn \in {0, txn}}

\* the orders in which a query may return rows under ORDER BY set_number ASC
OrderedBySetNumber(rows) ==
    {s \in [1..Cardinality(rows) -> rows] :
        /\ \A i, j \in DOMAIN s : i # j => s[i] # s[j]
        /\ \A i, j \in DOMAIN s : i < j => s[i].set_number <= s[j].set_number}

\* the rows ordered by position, then id
OrderedByPosition(rows) ==
    CHOOSE s \in [1..Cardinality(rows) -> rows] :
        /\ \A i, j \in DOMAIN s : i # j => s[i] # s[j]
        /\ \A i, j \in DOMAIN s : i < j =>
              \/ s[i].position < s[j].position
              \/ s[i].position = s[j].position /\ s[i].id < s[j].id

\* faulty variant: the dates are taken in ascending order
get_last_session_sets_oldest(workouts, set_logs, uid, exercise_id) ==
    LET joined == {j \in set_logs \X workouts :
                      /\ j[2].id = j[1].workout_id
                      /\ j[1].user_id = uid
                      /\ j[1].exercise_id = exercise_id}
    IN  IF joined = {}
        THEN {<< >>}
        ELSE LET last == CHOOSE j \in joined : \A k \in joined :
                             \/ k[2].date > j[2].date
                             \/ k[2].date = j[2].date /\ k[1].id <= j[1].id
                 last_wid == last[1].workout_id
             IN  OrderedBySetNumber({x \in set_logs :
                                        /\ x.user_id = uid
                                        /\ x.exercise_id = exercise_id
                                        /\ x.workout_id = last_wid})

\* faulty variant: the latest workout is sought among the sets of every user
get_last_session_sets_any_user(workouts, set_logs, uid, exercise_id) ==
    LET joined == {j \in set_logs \X workouts :
                      /\ j[2].id = j[1].workout_id
                      /\ j[1].exercise_id = exercise_id}
    IN  IF joined = {}
        THEN {<< >>}
        ELSE LET last == CHOOSE j \in joined : \A k \in joined :
                             \/ k[2].date < j[2].date
                             \/ k[2].date = j[2].date /\ k[1].id <= j[1].id
                 last_wid == last[1].workout_id
             IN  OrderedBySetNumber({x \in set_logs :
                                        /\ x.user_id = uid
                                        /\ x.exercise_id = exercise_id
                                        /\ x.workout_id = last_wid})

\* get_last_session_sets over the workout and set_log rows the session sees:
\* the lists the function may return
get_last_session_sets(workouts, set_logs, uid, exercise_id) ==
    LET joined == {j \in set_logs \X workouts :
                      /\ j[2].id = j[1].workout_id
                      /\ j[1].user_id = uid
                      /\ j[1].exercise_id = exercise_id}
    IN  IF joined = {}
        THEN {<< >>}
        ELSE LET last == CHOOSE j \in joined : \A k \in joined :
                             \/ k[2].date < j[2].date
                             \/ k[2].date = j[2].date /\ k[1].id <= j[1].id
                 last_wid == last[1].workout_id
             IN  OrderedBySetNumber({x \in set_logs :
                                        /\ x.user_id = uid
                                        /\ x.exercise_id = exercise_id
                                        /\ x.workout_id = last_wid})

get_current_week(prog) ==
    IF prog.start_date = None THEN 1
    ELSE LET days == today - prog.start_date
         IN  MaxOf({1, MinOf({(days \div 7) + 1, prog.duration_weeks})})

\* faulty variant: every week from the deload week on counts
is_deload_week_from(prog, week_num) ==
    prog.deload_week # None /\ week_num >= prog.deload_week

is_deload_week(prog, week_num) ==
    prog.deload_week # None /\ week_num = prog.deload_week

\* the field values the logging form may carry for one set
FormFields ==
    [reps : {Unparsable} \cup 0..MaxFormReps,
     weight : {Unparsable} \cup 0..MaxFormWeightQ]

Accepted(fields) ==
    {k \in DOMAIN fields : fields[k].reps > 0 /\ fields[k].weight > 0}

\* the elements of a sequence of naturals in ascending order
RECURSIVE Ascending(_)
Ascending(S) ==
    IF S = {} THEN << >>
    ELSE LET m == MinOf(S) IN <<m>> \o Ascending(S \ {m})

\* set_log rows waiting in the sessions for their INSERT
PendingCount ==
    LET RECURSIVE Sum(_)
        Sum(R) == IF R = {} THEN 0
                  ELSE LET r == CHOOSE x \in R : TRUE
                       IN  (IF req[r].pc = "loop" THEN Len(req[r].pending)
                            ELSE 0) + Sum(R \ {r})
    IN  Sum(Requests)

\* the INSERTs of a flush: the pending rows take the next ids in the order
\* they were added
Flushed(r) ==
    {[id |-> next_set_log_id + k - 1, txn |-> r,
      user_id |-> req[r].pending[k].user_id,
      workout_id |-> req[r].pending[k].workout_id,
      exercise_id |-> req[r].pending[k].exercise_id,
      set_number |-> req[r].pending[k].set_number,
      reps |-> req[r].pending[k].reps,
      weight |-> req[r].pending[k].weight,
      target_reps |-> req[r].pending[k].target_reps,
      progressed |-> req[r].pending[k].progressed] :
        k \in DOMAIN req[r].pending}

\* faulty variant: the rows of the transaction are kept and made permanent
Rollback_persists(rows, r) ==
    {[x EXCEPT !.txn = IF @ = r THEN 0 ELSE @] : x \in rows}

\* db.session.rollback(): the rows the transaction inserted are gone
Rollback(rows, r) == {x \in rows : x.txn # r}

\* POST /log/day/<day_id>, up to the flush of the Workout row.  A day of
\* another user's program is answered by a redirect and changes nothing.
LogStart(r, uid, day_id, week_number) ==
    /\ req[r].pc = "idle"
    /\ \A q \in Requests : q < r => req[q].pc # "idle"
    /\ next_workout_id <= MaxWorkouts
    /\ \E day \in program_day : \E prog \in program :
          /\ day.id = day_id
          /\ prog.id = day.program_id
          /\ prog.user_id = uid
          /\ LET pes == OrderedByPosition(
                            {pe \in program_exercise : pe.day_id = day.id})
                 default_wk == get_current_week(prog)
                 selected_week == IF week_number = None THEN default_wk
                                  ELSE week_number
                 deload_now == is_deload_week(prog, selected_week)
             IN  /\ workout' = workout \cup
                        {[id |-> next_workout_id, user_id |-> uid,
                          date |-> today, program_day_id |-> day.id,
                          week_number |-> selected_week, txn |-> r]}
                 /\ next_workout_id' = next_workout_id + 1
                 /\ req' = [req EXCEPT ![r] =
                        [pc |-> "loop", uid |-> uid, wid |-> next_workout_id,
                         pes |-> pes, i |-> 1, deload_now |-> deload_now,
                         pending |-> << >>]]
    /\ UNCHANGED <<auth_vars, eng, today, set_log, next_set_log_id, program_vars>>

\* one turn of the loop over the exercises of the day: the query of
\* compute_session_targets first flushes the rows added in the turn before,
\* then the first sets_this_session sets of the form are read; a field that
\* does not parse raises, and the handler rolls the transaction back
LogExercise(r) ==
    /\ req[r].pc = "loop"
    /\ req[r].i <= Len(req[r].pes)
    /\ LET pe == req[r].pes[req[r].i]
           uid == req[r].uid
           flushed_logs == set_log \cup Flushed(r)
           sets_this_session ==
               sets_this_session_post(pe.target_sets, req[r].deload_now)
       IN  /\ \E form \in [1..pe.target_sets -> FormFields] :
              \E last_sets \in get_last_session_sets(
                                  Visible(workout, r),
                                  Visible(flushed_logs, r),
                                  uid, pe.exercise_id) :
                LET fields == [k \in 1..sets_this_session |-> form[k]]
                    targets == compute_session_targets(last_sets, pe.rep_min,
                                   pe.rep_max, ExerciseOf(pe.exercise_id),
                                   req[r].deload_now)
                    rep_target == targets[1]
                    last_top_weight == targets[3]
                    accepted == Ascending(Accepted(fields))
                    added == [k \in DOMAIN accepted |->
                        [user_id |-> uid, workout_id |-> req[r].wid,
                         exercise_id |-> pe.exercise_id,
                         set_number |-> accepted[k],
                         reps |-> fields[accepted[k]].reps,
                         weight |-> fields[accepted[k]].weight,
                         target_reps |-> rep_target,
                         progressed |-> mark_progress(rep_target,
                                            fields[accepted[k]].reps,
                                            fields[accepted[k]].weight,
                                            last_top_weight)]]
                IN  IF \E k \in DOMAIN fields :
                          \/ fields[k].reps = Unparsable
                          \/ fields[k].weight = Unparsable
                    THEN /\ workout' = Rollback(workout, r)
                         /\ set_log' = Rollback(set_log, r)
                         /\ req' = [req EXCEPT ![r] = IdleRequest]
                    ELSE /\ (next_set_log_id - 1) + PendingCount
                                + Len(accepted) <= MaxSetLogs
                         /\ workout' = workout
                         /\ set_log' = flushed_logs
                         /\ req' = [req EXCEPT ![r].i = @ + 1,
                                               ![r].pending = added]
           /\ next_set_log_id' = next_set_log_id + Len(req[r].pending)
    /\ UNCHANGED <<auth_vars, eng, today, next_workout_id, program_vars>>

\* db.session.commit(), first part: the flush of the rows of the last turn
LogFlush(r) ==
    /\ req[r].pc = "loop"
    /\ req[r].i > Len(req[r].pes)
    /\ set_log' = set_log \cup Flushed(r)
    /\ next_set_log_id' = next_set_log_id + Len(req[r].pending)
    /\ req' = [req EXCEPT ![r] = [pc |-> "flushed"]]
    /\ UNCHANGED <<auth_vars, eng, today, workout, next_workout_id, program_vars>>

\* faulty variant: the sets committed replace those committed before
LogCommit_replaces(r) ==
    /\ req[r].pc = "flushed"
    /\ workout' = {[w EXCEPT !.txn = IF @ = r THEN 0 ELSE @] : w \in workout}
    /\ set_log' = {[x EXCEPT !.txn = 0] : x \in {y \in set_log : y.txn = r}}
                      \cup {x \in set_log : x.txn \notin {0, r}}
    /\ req' = [req EXCEPT ![r] = IdleRequest]
    /\ UNCHANGED <<auth_vars, eng, today, next_workout_id, next_set_log_id, program_vars>>

\* db.session.commit(), second part: the rows of the transaction become
\* visible to every session
LogCommit(r) ==
    /\ req[r].pc = "flushed"
    /\ workout' = {[w EXCEPT !.txn = IF @ = r THEN 0 ELSE @] : w \in workout}
    /\ set_log' = {[x EXCEPT !.txn = IF @ = r THEN 0 ELSE @] : x \in set_log}
    /\ req' = [req EXCEPT ![r] = IdleRequest]
    /\ UNCHANGED <<auth_vars, eng, today, next_workout_id, next_set_log_id, program_vars>>

\* midnight
Tick ==
    /\ today < MaxDate
    /\ today' = today + 1
    /\ UNCHANGED <<auth_vars, eng, workout, set_log, next_workout_id, next_set_log_id,
                   program_vars, req>>

\* the rows per_ex may hold for one exercise of the day: the targets come
\* from the lookup compute_session_targets makes, last_session_sets from the
\* lookup the handler makes itself; both read the committed rows
PageEntries(pe, uid, deload_now) ==
    LET lists == get_last_session_sets(Visible(workout, 0),
                     Visible(set_log, 0), uid, pe.exercise_id)
        Entry(l1, l2) ==
            LET targets == compute_session_targets(l1, pe.rep_min, pe.rep_max,
                               ExerciseOf(pe.exercise_id), deload_now)
                next_weight == targets[2]
                last_top_weight == targets[3]
            IN  [pe |-> pe, rep_target |-> targets[1],
                 next_weight |-> next_weight,
                 default_weight |->
                     IF next_weight # None THEN <<"tenths", next_weight>>
                     ELSE IF last_top_weight # None
                          THEN <<"quarters", last_top_weight>>
                          ELSE <<"quarters", 0>>,
                 last_session_sets |-> l2,
                 sets_this_session |->
                     sets_this_session_get(pe.target_sets, deload_now)]
    IN  {Entry(l1, l2) : l1 \in lists, l2 \in lists}

\* faulty variant: rendering the page saves an empty workout as a draft
LogGet_saves_draft(uid, day_id, week_number) ==
    /\ next_workout_id <= MaxWorkouts
    /\ \E day \in program_day : \E prog \in program :
          /\ day.id = day_id
          /\ prog.id = day.program_id
          /\ prog.user_id = uid
          /\ workout' = workout \cup
                 {[id |-> next_workout_id, user_id |-> uid, date |-> today,
                   program_day_id |-> day.id, week_number |-> week_number,
                   txn |-> 0]}
          /\ next_workout_id' = next_workout_id + 1
          /\ eng' = [op |-> "page", uid |-> uid, day_id |-> day.id,
                     selected_week |-> week_number,
                     deload_now |-> FALSE, per_ex |-> << >>]
    /\ UNCHANGED <<auth_vars, today, set_log, next_set_log_id, program_vars, req>>

\* GET /log/day/<day_id>: the page of the day with, for every exercise, the
\* targets, the sets of the last session and the number of sets to log
LogGet(uid, day_id, week_number) ==
    /\ \E day \in program_day : \E prog \in program :
          /\ day.id = day_id
          /\ prog.id = day.program_id
          /\ prog.user_id = uid
          /\ LET pes == OrderedByPosition(
                            {pe \in program_exercise : pe.day_id = day.id})
                 default_wk == get_current_week(prog)
                 selected_week == IF week_number = None THEN default_wk
                                  ELSE week_number
                 deload_now == is_deload_week(prog, selected_week)
                 entries == UNION {PageEntries(pes[i], uid, deload_now) :
                                      i \in DOMAIN pes}
             IN  \E per_ex \in [DOMAIN pes -> entries] :
                    /\ \A i \in DOMAIN pes :
                          per_ex[i] \in PageEntries(pes[i], uid, deload_now)
                    /\ eng' = [op |-> "page", uid |-> uid, day_id |-> day.id,
                               selected_week |-> selected_week,
                               deload_now |-> deload_now, per_ex |-> per_ex]
    /\ UNCHANGED store_vars

\* Each user owns one started program of one day; the first user's day
\* lists two exercises, possibly the same one twice, and its program has
\* week 2 as deload week.
Init ==
    /\ eng = [op |-> "none"]
    /\ today = 1
    /\ workout = {}
    /\ set_log = {}
    /\ next_workout_id = 1
    /\ next_set_log_id = 1
    /\ program = {[id |-> u, user_id |-> u, days_per_week |-> 1,
                    duration_weeks |-> 2,
                    deload_week |-> IF u = 1 THEN 2 ELSE None,
                    start_date |-> 1, locked |-> TRUE,
                    status |-> "active"] : u \in Users}
    /\ program_day = {[id |-> u, program_id |-> u, day_index |-> 0,
                        day_name |-> "Full 1"] : u \in Users}
    /\ \E e \in ExerciseIds :
          program_exercise =
              {[id |-> 1, day_id |-> 1, exercise_id |-> 1, target_sets |-> 2,
                rep_min |-> 1, rep_max |-> 2, position |-> 0],
               [id |-> 2, day_id |-> 1, exercise_id |-> e, target_sets |-> 1,
                rep_min |-> 1, rep_max |-> 2, position |-> 1],
               [id |-> 3, day_id |-> 2, exercise_id |-> 1, target_sets |-> 1,
                rep_min |-> 1, rep_max |-> 2, position |-> 0]}
    /\ next_program_id = 3
    /\ next_program_day_id = 3
    /\ next_program_exercise_id = 4
    /\ req = [r \in Requests |-> IdleRequest]
    /\ RegisteredUsers

Next ==
    \/ \E r \in Requests, uid \in Users, day_id \in Users,
          week_number \in {None, 2} : LogStart(r, uid, day_id, week_number)
    \/ \E r \in Requests : LogExercise(r)
    \/ \E r \in Requests : LogFlush(r)
    \/ \E r \in Requests : LogCommit(r)
    \/ Tick

Spec == Init /\ [][Next]_vars

\* One user whose day lists one exercise of three sets; week 2 of the
\* program is its deload week.
InitVolume ==
    /\ eng = [op |-> "none"]
    /\ today = 1
    /\ workout = {}
    /\ set_log = {}
    /\ next_workout_id = 1
    /\ next_set_log_id = 1
    /\ program = {[id |-> 1, user_id |-> 1, days_per_week |-> 1,
                    duration_weeks |-> 2,
                    deload_week |-> 2, start_date |-> 1, locked |-> TRUE,
                    status |-> "active"]}
    /\ program_day = {[id |-> 1, program_id |-> 1, day_index |-> 0,
                        day_name |-> "Full 1"]}
    /\ program_exercise =
          {[id |-> 1, day_id |-> 1, exercise_id |-> 1, target_sets |-> 3,
            rep_min |-> 1, rep_max |-> 2, position |-> 0]}
    /\ next_program_id = 2
    /\ next_program_day_id = 2
    /\ next_program_exercise_id = 2
    /\ req = [r \in Requests |-> IdleRequest]
    /\ RegisteredUsers

\* one logging request at a time
NextVolume ==
    \/ \E week_number \in {None, 2} : LogStart(1, 1, 1, week_number)
    \/ LogExercise(1)
    \/ LogFlush(1)
    \/ LogCommit(1)
    \/ Tick

SpecVolume == InitVolume /\ [][NextVolume]_vars

\* one logging request at a time, up to the first page of a day that is
\* rendered; pages go on being rendered from the store as it then is
NextPage ==
    \/ /\ eng.op = "none"
       /\ \E uid \in Users, day_id \in Users :
             LogStart(1, uid, day_id, None)
    \/ eng.op = "none" /\ LogExercise(1)
    \/ eng.op = "none" /\ LogFlush(1)
    \/ eng.op = "none" /\ LogCommit(1)
    \/ \E uid \in Users, day_id \in Users, week_number \in {None, 2} :
          LogGet(uid, day_id, week_number)

SpecPage == Init /\ [][NextPage]_vars

----------------------------------------------------------------------------
(* Programs: creation, the current week *)

SPLITS ==
    [PPL |-> <<"Push A", "Pull A", "Legs A", "Push B", "Pull B", "Legs B">>,
     UL |-> <<"Upper A", "Lower A", "Upper B", "Lower B">>,
     FB |-> <<"Full 1", "Full 2", "Full 3", "Full 4", "Full 5", "Full 6">>]

\* the Python slice s[:k]
SliceTo(s, k) ==
    IF k >= 0 THEN SubSeq(s, 1, MinOf({k, Len(s)}))
    ELSE SubSeq(s, 1, MaxOf({Len(s) + k, 0}))

days_for_split(split, days_per_week) ==
    SliceTo(IF split \in DOMAIN SPLITS THEN SPLITS[split] ELSE SPLITS["FB"],
            days_per_week)

\* faulty variant: the programs are left as they are
archive_any_active_before_creating_none(uid) ==
    program

\* the program table once the active programs of the user are archived
archive_any_active_before_creating(uid) ==
    {IF p.user_id = uid /\ p.status = "active"
     THEN [p EXCEPT !.status = "archived"] ELSE p : p \in program}

\* POST /create-program: the form's numbers are stored as they parse
create_program(uid, split, days_per_week, duration_weeks) ==
    /\ next_program_id <= MaxPrograms
    /\ LET names == days_for_split(split, days_per_week)
       IN  /\ program' = archive_any_active_before_creating(uid) \cup
                  {[id |-> next_program_id, user_id |-> uid,
                    days_per_week |-> days_per_week,
                    duration_weeks |-> duration_weeks, deload_week |-> None,
                    start_date |-> today, locked |-> FALSE,
                    status |-> "active"]}
           /\ program_day' = program_day \cup
                  {[id |-> next_program_day_id + idx - 1,
                    program_id |-> next_program_id, day_index |-> idx - 1,
                    day_name |-> names[idx]] : idx \in DOMAIN names}
           /\ next_program_day_id' = next_program_day_id + Len(names)
    /\ next_program_id' = next_program_id + 1
    /\ UNCHANGED <<auth_vars, eng, today, program_exercise, next_program_exercise_id,
                   log_vars>>

\* a week passes
TickWeek ==
    /\ today + 7 <= MaxProgramDate
    /\ today' = today + 7
    /\ UNCHANGED <<auth_vars, eng, program_vars, log_vars>>

\* get_current_week applied to a stored program
CallGetCurrentWeek(program_id) ==
    /\ \E prog \in program :
          /\ prog.id = program_id
          /\ eng' = [op |-> "week", prog |-> prog, today |-> today,
                     week |-> get_current_week(prog)]
    /\ UNCHANGED store_vars

\* User 1 owns a program of two weeks and one day, stored without a
\* start_date; nothing has been logged.
InitProgram ==
    /\ eng = [op |-> "none"]
    /\ today = 1
    /\ workout = {}
    /\ set_log = {}
    /\ next_workout_id = 1
    /\ next_set_log_id = 1
    /\ program = {[id |-> 1, user_id |-> 1, days_per_week |-> 1,
                    duration_weeks |-> 2,
                    deload_week |-> None, start_date |-> None,
                    locked |-> FALSE, status |-> "active"]}
    /\ program_day = {[id |-> 1, program_id |-> 1, day_index |-> 0,
                        day_name |-> "Full 1"]}
    /\ program_exercise = {}
    /\ next_program_id = 2
    /\ next_program_day_id = 2
    /\ next_program_exercise_id = 1
    /\ req = [r \in Requests |-> IdleRequest]
    /\ RegisteredUsers

NextWeek ==
    \/ \E uid \in Users, split \in {"UL", "other"},
          days_per_week \in 0..MaxDaysPerWeek,
          duration_weeks \in 0..MaxWeeks :
          create_program(uid, split, days_per_week, duration_weeks)
    \/ Tick
    \/ TickWeek
    \/ \E program_id \in 1..MaxPrograms : CallGetCurrentWeek(program_id)

SpecWeek == InitProgram /\ [][NextWeek]_vars

\* POST /program/<program_id>/archive
archive_program(uid, program_id) ==
    /\ \E prog \in program :
          /\ prog.id = program_id
          /\ IF prog.user_id # uid
             THEN program' = program
             ELSE program' = (program \ {prog}) \cup
                      {[prog EXCEPT !.status = "archived"]}
    /\ UNCHANGED <<auth_vars, eng, today, program_day, program_exercise,
                   next_program_id, next_program_day_id,
                   next_program_exercise_id, log_vars>>

NextActive ==
    \/ \E uid \in Users, split \in {"UL", "other"},
          days_per_week \in 0..MaxDaysPerWeek,
          duration_weeks \in 0..MaxWeeks :
          create_program(uid, split, days_per_week, duration_weeks)
    \/ \E uid \in Users, program_id \in 1..MaxPrograms :
          archive_program(uid, program_id)
    \/ Tick

SpecActive == InitProgram /\ [][NextActive]_vars

----------------------------------------------------------------------------
(* Programs: the deload week *)

\* the values the field deload_week of the form may parse to; None when it
\* is missing or not a number
DeloadWeekFields == {None} \cup 0..(MaxWeeks + 1)

\* POST /program/<program_id>/deload; the answer is kept in eng
set_deload(uid, program_id, action, w) ==
    /\ \E prog \in program :
          /\ prog.id = program_id
          /\ LET answer(flash) ==
                     [op |-> "set_deload", uid |-> uid,
                      program_id |-> program_id, action |-> action,
                      deload_week |-> w, flash |-> flash]
                 duration_or_1 == IF prog.duration_weeks = 0 THEN 1
                                  ELSE prog.duration_weeks
             IN  IF prog.user_id # uid
                 THEN /\ eng' = answer("403")
                      /\ program' = program
                 ELSE IF action = "clear"
                 THEN /\ eng' = answer("Deload cleared for this program.")
                      /\ program' = (program \ {prog}) \cup
                             {[prog EXCEPT !.deload_week = None]}
                 ELSE IF w = None \/ w = 0 \/ w < 1 \/ w > duration_or_1
                 THEN /\ eng' = answer("Invalid deload week.")
                      /\ program' = program
                 ELSE /\ eng' = answer("Deload scheduled for week w.")
                      /\ program' = (program \ {prog}) \cup
                             {[prog EXCEPT !.deload_week = w]}
    /\ UNCHANGED <<auth_vars, today, program_day, program_exercise, next_program_id,
                   next_program_day_id, next_program_exercise_id, log_vars>>

\* is_deload_week applied to a stored program and a week
CallIsDeloadWeek(program_id, week_num) ==
    /\ \E prog \in program :
          /\ prog.id = program_id
          /\ eng' = [op |-> "is_deload_week", prog |-> prog,
                     week_num |-> week_num,
                     result |-> is_deload_week(prog, week_num)]
    /\ UNCHANGED store_vars

NextDeload ==
    \/ \E uid \in Users, duration_weeks \in 0..MaxWeeks :
          create_program(uid, "UL", MaxDaysPerWeek, duration_weeks)
    \/ \E uid \in Users, program_id \in 1..MaxPrograms,
          action \in {"set", "clear"}, w \in DeloadWeekFields :
          set_deload(uid, program_id, action, w)
    \/ \E program_id \in 1..MaxPrograms, week_num \in 0..(MaxWeeks + 1) :
          CallIsDeloadWeek(program_id, week_num)

SpecDeload == InitProgram /\ [][NextDeload]_vars

----------------------------------------------------------------------------
(* Programs: the exercises of a day *)

\* the answer of edit_program_day_post, kept in eng
EditAnswer(action, flash) == [op |-> "edit", action |-> action, flash |-> flash]

\* POST /program/<program_id>/edit-day/<day_id> with action=add
EditAdd(uid, program_id, day_id, exercise_id, target_sets, rep_min, rep_max) ==
    /\ \E prog \in program : \E day \in program_day :
          /\ prog.id = program_id
          /\ day.id = day_id
          /\ LET positions == {pe.position : pe \in
                                  {q \in program_exercise : q.day_id = day.id}}
                 coalesced == IF positions = {} THEN 0 - 1
                              ELSE MaxOf(positions)
                 max_pos == IF coalesced = 0 THEN 0 - 1 ELSE coalesced
             IN  IF prog.user_id # uid
                 THEN /\ eng' = EditAnswer("add", "Not your program.")
                      /\ UNCHANGED <<program_exercise,
                                     next_program_exercise_id>>
                 ELSE IF prog.locked
                 THEN /\ eng' = EditAnswer("add", "")
                      /\ UNCHANGED <<program_exercise,
                                     next_program_exercise_id>>
                 ELSE IF /\ exercise_id # 0
                         /\ rep_min > 0
                         /\ rep_max >= rep_min
                         /\ target_sets > 0
                 THEN /\ next_program_exercise_id <= MaxProgramExercises
                      /\ eng' = EditAnswer("add", "Exercise added.")
                      /\ program_exercise' = program_exercise \cup
                             {[id |-> next_program_exercise_id,
                               day_id |-> day.id,
                               exercise_id |-> exercise_id,
                               target_sets |-> target_sets,
                               rep_min |-> rep_min, rep_max |-> rep_max,
                               position |-> max_pos + 1]}
                      /\ next_program_exercise_id' =
                             next_program_exercise_id + 1
                 ELSE /\ eng' = EditAnswer("add",
                                     "Provide valid sets/rep range.")
                      /\ UNCHANGED <<program_exercise,
                                     next_program_exercise_id>>
    /\ UNCHANGED <<auth_vars, today, program, program_day, next_program_id,
                   next_program_day_id, log_vars>>

\* faulty variant: any number of sets is stored
EditUpdateSets_unchecked(uid, program_id, day_id, pe_id, new_sets) ==
    /\ \E prog \in program : \E day \in program_day :
       \E pe \in program_exercise :
          /\ prog.id = program_id
          /\ day.id = day_id
          /\ pe.id = pe_id
          /\ prog.user_id = uid
          /\ eng' = EditAnswer("update_sets", "Sets updated.")
          /\ program_exercise' = (program_exercise \ {pe}) \cup
                 {[pe EXCEPT !.target_sets = new_sets]}
    /\ UNCHANGED <<auth_vars, today, program, program_day, next_program_id,
                   next_program_day_id, next_program_exercise_id, log_vars>>

\* POST /program/<program_id>/edit-day/<day_id> with action=update_sets;
\* the row is looked up by pe_id alone
EditUpdateSets(uid, program_id, day_id, pe_id, new_sets) ==
    /\ \E prog \in program : \E day \in program_day :
          /\ prog.id = program_id
          /\ day.id = day_id
          /\ IF prog.user_id # uid
             THEN /\ eng' = EditAnswer("update_sets", "Not your program.")
                  /\ program_exercise' = program_exercise
             ELSE \E pe \in program_exercise :
                    /\ pe.id = pe_id
                    /\ IF new_sets < 1
                       THEN /\ eng' = EditAnswer("update_sets",
                                           "Sets must be >=1.")
                            /\ program_exercise' = program_exercise
                       ELSE /\ eng' = EditAnswer("update_sets",
                                           "Sets updated.")
                            /\ program_exercise' =
                                   (program_exercise \ {pe}) \cup
                                   {[pe EXCEPT !.target_sets = new_sets]}
    /\ UNCHANGED <<auth_vars, today, program, program_day, next_program_id,
                   next_program_day_id, next_program_exercise_id, log_vars>>

\* the requests of both users on the program of user 1
NextEdit ==
    \/ \E uid \in Users, program_id \in 1..MaxPrograms,
          day_id \in 1..(MaxPrograms * MaxDaysPerWeek),
          exercise_id \in {0, 1}, target_sets \in 0..MaxEditSets,
          rep_min \in 0..MaxEditReps, rep_max \in 0..MaxEditReps :
          EditAdd(uid, program_id, day_id, exercise_id, target_sets,
                  rep_min, rep_max)
    \/ \E uid \in Users, program_id \in 1..MaxPrograms,
          day_id \in 1..(MaxPrograms * MaxDaysPerWeek),
          pe_id \in 1..MaxProgramExercises, new_sets \in 0..MaxEditSets :
          EditUpdateSets(uid, program_id, day_id, pe_id, new_sets)

SpecEdit == InitProgram /\ [][NextEdit]_vars

----------------------------------------------------------------------------
(* Programs: starting, and the days and exercises of a program *)

\* faulty variant: days without exercises do not hold the start back
start_program_empty_days(uid, program_id) ==
    /\ \E prog \in program :
          /\ prog.id = program_id
          /\ IF prog.user_id # uid
             THEN program' = program
             ELSE IF prog.locked
             THEN program' = program
             ELSE program' = (program \ {prog}) \cup
                      {[prog EXCEPT !.locked = TRUE, !.start_date = today]}
    /\ UNCHANGED <<auth_vars, eng, today, program_day, program_exercise,
                   next_program_id, next_program_day_id,
                   next_program_exercise_id, log_vars>>

\* POST /program/<program_id>/day/<day_id>/start
start_program(uid, program_id) ==
    /\ \E prog \in program :
          /\ prog.id = program_id
          /\ IF prog.user_id # uid
             THEN program' = program
             ELSE IF prog.locked
             THEN program' = program
             ELSE IF \E d \in program_day :
                        /\ d.program_id = prog.id
                        /\ {pe \in program_exercise : pe.day_id = d.id} = {}
             THEN program' = program
             ELSE program' = (program \ {prog}) \cup
                      {[prog EXCEPT !.locked = TRUE, !.start_date = today]}
    /\ UNCHANGED <<auth_vars, eng, today, program_day, program_exercise,
                   next_program_id, next_program_day_id,
                   next_program_exercise_id, log_vars>>

\* POST /program/exercise/<pe_id>/delete
delete_program_exercise(uid, pe_id) ==
    /\ \E pe \in program_exercise : \E day \in program_day :
       \E prog \in program :
          /\ pe.id = pe_id
          /\ day.id = pe.day_id
          /\ prog.id = day.program_id
          /\ IF prog.user_id # uid \/ prog.locked
             THEN program_exercise' = program_exercise
             ELSE program_exercise' = program_exercise \ {pe}
    /\ UNCHANGED <<auth_vars, eng, today, program, program_day, next_program_id,
                   next_program_day_id, next_program_exercise_id, log_vars>>

\* the position the loop of sort_program_day leaves on a row: the index of
\* the last entry of order that names it, counted from 0
SortedPosition(pe, order) ==
    LET named == {i \in DOMAIN order : order[i] = pe.id}
    IN  IF named = {} THEN pe.position ELSE MaxOf(named) - 1

\* POST /program/day/<day_id>/sort with the JSON list order
sort_program_day(uid, day_id, order) ==
    /\ \E day \in program_day : \E prog \in program :
          /\ day.id = day_id
          /\ prog.id = day.program_id
          /\ IF prog.user_id # uid \/ prog.locked
             THEN program_exercise' = program_exercise
             ELSE program_exercise' =
                      {IF pe.day_id = day.id
                       THEN [pe EXCEPT !.position = SortedPosition(pe, order)]
                       ELSE pe : pe \in program_exercise}
    /\ UNCHANGED <<auth_vars, eng, today, program, program_day, next_program_id,
                   next_program_day_id, next_program_exercise_id, log_vars>>

\* the orders in which a query may return days under ORDER BY day_index
OrderedByDayIndex(days) ==
    {s \in [1..Cardinality(days) -> days] :
        /\ \A i, j \in DOMAIN s : i # j => s[i] # s[j]
        /\ \A i, j \in DOMAIN s : i < j => s[i].day_index <= s[j].day_index}

\* POST /program/<program_id>/day/<day_id>/remove: there is no test of
\* the locked flag
remove_program_day(uid, program_id, day_id) ==
    /\ \E prog \in program : \E day \in program_day :
          /\ prog.id = program_id
          /\ day.id = day_id
          /\ prog.user_id = uid
          /\ day.program_id = prog.id
          /\ LET others == {d \in program_day : d.program_id = prog.id} \ {day}
             IN  \E days \in OrderedByDayIndex(others) :
                    /\ program_exercise' =
                           {pe \in program_exercise : pe.day_id # day.id}
                    /\ program_day' =
                           {d \in program_day : d.program_id # prog.id}
                           \cup {[days[i] EXCEPT !.day_index = i - 1] :
                                    i \in DOMAIN days}
                    /\ program' = (program \ {prog}) \cup
                           {[prog EXCEPT !.days_per_week = Len(days)]}
    /\ UNCHANGED <<auth_vars, eng, today, next_program_id, next_program_day_id,
                   next_program_exercise_id, log_vars>>

\* POST /program/<program_id>/add-day without a day_name in the form
add_day(uid, program_id) ==
    /\ next_program_day_id <= MaxProgramDays
    /\ \E prog \in program :
          /\ prog.id = program_id
          /\ IF prog.user_id # uid \/ prog.locked
             THEN UNCHANGED <<program, program_day, next_program_day_id>>
             ELSE LET indexes == {d.day_index : d \in
                                     {x \in program_day :
                                         x.program_id = prog.id}}
                      coalesced == IF indexes = {} THEN 0 - 1
                                   ELSE MaxOf(indexes)
                      next_idx == (IF coalesced = 0 THEN 0 - 1
                                   ELSE coalesced) + 1
                  IN  /\ program_day' = program_day \cup
                             {[id |-> next_program_day_id,
                               program_id |-> prog.id,
                               day_index |-> next_idx,
                               day_name |-> "Day " \o ToString(next_idx + 1)]}
                      /\ program' = (program \ {prog}) \cup
                             {[prog EXCEPT !.days_per_week = next_idx + 1]}
                      /\ next_program_day_id' = next_program_day_id + 1
    /\ UNCHANGED <<auth_vars, eng, today, program_exercise, next_program_id,
                   next_program_exercise_id, log_vars>>

\* Each user owns a program of one day that is not started; the days hold
\* no exercise yet.
InitPrograms ==
    /\ eng = [op |-> "none"]
    /\ today = 1
    /\ workout = {}
    /\ set_log = {}
    /\ next_workout_id = 1
    /\ next_set_log_id = 1
    /\ program = {[id |-> u, user_id |-> u, days_per_week |-> 1,
                    duration_weeks |-> 2, deload_week |-> None,
                    start_date |-> 1, locked |-> FALSE,
                    status |-> "active"] : u \in Users}
    /\ program_day = {[id |-> u, program_id |-> u, day_index |-> 0,
                        day_name |-> "Full 1"] : u \in Users}
    /\ program_exercise = {}
    /\ next_program_id = 3
    /\ next_program_day_id = 3
    /\ next_program_exercise_id = 1
    /\ req = [r \in Requests |-> IdleRequest]
    /\ RegisteredUsers

\* the lists of row ids the sort request may carry
SortOrders ==
    UNION {[1..n -> 1..MaxProgramExercises] : n \in 1..MaxProgramExercises}

NextProgram ==
    \/ \E uid \in Users, program_id \in Users, day_id \in 1..MaxProgramDays :
          EditAdd(uid, program_id, day_id, 1, 1, 1, 1)
    \/ \E uid \in Users, program_id \in Users, day_id \in 1..MaxProgramDays,
          pe_id \in 1..MaxProgramExercises, new_sets \in 1..MaxEditSets :
          EditUpdateSets(uid, program_id, day_id, pe_id, new_sets)
    \/ \E uid \in Users, pe_id \in 1..MaxProgramExercises :
          delete_program_exercise(uid, pe_id)
    \/ \E uid \in Users, day_id \in 1..MaxProgramDays, order \in SortOrders :
          sort_program_day(uid, day_id, order)
    \/ \E uid \in Users, program_id \in Users, day_id \in 1..MaxProgramDays :
          remove_program_day(uid, program_id, day_id)
    \/ \E uid \in Users, program_id \in Users : add_day(uid, program_id)
    \/ \E uid \in Users, program_id \in Users : start_program(uid, program_id)
    \/ Tick

SpecProgram == InitPrograms /\ [][NextProgram]_vars

\* Nobody has created a program yet.
InitNoPrograms ==
    /\ eng = [op |-> "none"]
    /\ today = 1
    /\ workout = {}
    /\ set_log = {}
    /\ next_workout_id = 1
    /\ next_set_log_id = 1
    /\ program = {}
    /\ program_day = {}
    /\ program_exercise = {}
    /\ next_program_id = 1
    /\ next_program_day_id = 1
    /\ next_program_exercise_id = 1
    /\ req = [r \in Requests |-> IdleRequest]
    /\ RegisteredUsers

\* the numbers of days the program form offers in the model
MaxCreateDays == 2

\* Programs are created, and days are added to them and removed from
\* them, one request after another.
NextDays ==
    \/ \E uid \in Users, split \in {"UL", "FB", "other"},
          days_per_week \in 1..MaxCreateDays :
            create_program(uid, split, days_per_week, 1)
    \/ \E uid \in Users, program_id \in 1..MaxPrograms :
            add_day(uid, program_id)
    \/ \E uid \in Users, program_id \in 1..MaxPrograms,
          day_id \in 1..(MaxProgramDays + 1) :
            remove_program_day(uid, program_id, day_id)

SpecDays == InitNoPrograms /\ [][NextDays]_vars

(* Accounts: signup, e-mail verification, password reset, login *)

\* what is typed into the e-mail field of a form
EmailFields == {"", "a@x.io", " A@X.io ", "b@x.io"}

\* (field or "").lower().strip()
NormalizeEmail(field) ==
    IF field = " A@X.io " THEN "a@x.io" ELSE field

\* what is typed into the password field of a form, with its length
PasswordLen == [letmein |-> 7, hunter22 |-> 8, abc |-> 3]

PasswordFields == {""} \cup DOMAIN PasswordLen

\* the age in days up to which a token loads: max_age of 24 hours for
\* verify, of one hour for reset
VerifyMaxAge == 1
ResetMaxAge == 0

\* _make_token: the serializer signs the payload and the time
make_token(email, purpose) ==
    [email |-> email, purpose |-> purpose, issued |-> today, signed |-> TRUE]

\* tokens that can arrive in a request: those mailed, and strings that
\* were not signed with the application's key
Tokens ==
    outbox \cup [email : {"a@x.io", "b@x.io"}, purpose : {"verify"},
                 issued : {today}, signed : {FALSE}]

\* the None that _load_token returns: the callers test "not email", which
\* holds of None as of the empty string
NoEmail == ""

\* faulty variant: the purpose of the token is not looked at
load_token_any_purpose(token, max_age, purpose) ==
    IF ~token.signed THEN NoEmail
    ELSE IF today - token.issued > max_age THEN NoEmail
    ELSE token.email

\* _load_token: None on BadSignature, SignatureExpired or another purpose
load_token(token, max_age, purpose) ==
    IF ~token.signed THEN NoEmail
    ELSE IF today - token.issued > max_age THEN NoEmail
    ELSE IF token.purpose # purpose THEN NoEmail
    ELSE token.email

\* auth_email.py lies next to app.py and imports only what app.py imports
\* itself or Flask brings along, so the import in signup succeeds
auth_email_imported == TRUE

\* POST /signup; sent tells whether _send_email returned or raised
signup(email_field, pw, sent) ==
    /\ LET email == NormalizeEmail(email_field)
       IN  IF email = "" \/ pw = ""
           THEN /\ eng' = [op |-> "signup",
                           flash |-> "Email and password required."]
                /\ UNCHANGED auth_vars
           ELSE IF \E u \in user : u.email = email
           THEN /\ eng' = [op |-> "signup",
                           flash |-> "Account already exists. Log in."]
                /\ UNCHANGED auth_vars
           ELSE /\ next_user_id <= MaxUsers
                /\ user' = user \cup
                       {[id |-> next_user_id, email |-> email,
                         password_hash |-> generate_password_hash(pw),
                         is_email_verified |-> ~auth_email_imported]}
                /\ next_user_id' = next_user_id + 1
                /\ IF ~auth_email_imported
                   THEN /\ outbox' = outbox
                        /\ eng' = [op |-> "signup", flash |->
                             "Account created successfully. You can now log in."]
                   ELSE IF sent
                   THEN /\ Cardinality(outbox) < MaxTokens
                        /\ outbox' = outbox \cup
                               {make_token(email, "verify")}
                        /\ eng' = [op |-> "signup", flash |->
                             "Account created. Check your email to verify your account."]
                   ELSE /\ outbox' = outbox
                        /\ eng' = [op |-> "signup", flash |->
                             "Error creating account. Please try again."]
                /\ UNCHANGED verifications
    /\ UNCHANGED <<today, program_vars, log_vars>>

\* POST /login: login_user is the id of the user logged in, or None
login(email_field, pw) ==
    /\ LET email == NormalizeEmail(email_field)
           found == {u \in user : u.email = email}
       IN  IF \A u \in found : ~check_password_hash(u.password_hash, pw)
           THEN eng' = [op |-> "login", email |-> email, password |-> pw,
                        login_user |-> None,
                        flash |-> "Invalid email or password."]
           ELSE \E u \in found :
                   IF ~u.is_email_verified
                   THEN eng' = [op |-> "login", email |-> email,
                                password |-> pw, login_user |-> None,
                                flash |->
                                 "Please verify your email before logging in."]
                   ELSE eng' = [op |-> "login", email |-> email,
                                password |-> pw, login_user |-> u.id,
                                flash |-> "Logged in."]
    /\ UNCHANGED <<auth_vars, today, program_vars, log_vars>>

\* GET /auth/verify?token=...
verify_email(token) ==
    /\ LET email == load_token(token, VerifyMaxAge, "verify")
       IN  IF email = NoEmail
           THEN /\ eng' = [op |-> "verify_email", token |-> token,
                           flash |-> "Invalid or expired token."]
                /\ UNCHANGED <<user, verifications>>
           ELSE IF \A u \in user : u.email # email
           THEN /\ eng' = [op |-> "verify_email", token |-> token,
                           flash |-> "Account not found."]
                /\ UNCHANGED <<user, verifications>>
           ELSE \E u \in user :
                   /\ u.email = email
                   /\ user' = (user \ {u}) \cup
                          {[u EXCEPT !.is_email_verified = TRUE]}
                   /\ verifications' = verifications \cup {u.id}
                   /\ eng' = [op |-> "verify_email", token |-> token,
                              flash |->
                               "Email verified. You can now log in!"]
    /\ UNCHANGED <<next_user_id, outbox, today, program_vars, log_vars>>

\* POST /auth/request-password-reset
request_password_reset(email_field) ==
    /\ LET email == NormalizeEmail(email_field)
       IN  IF \E u \in user : u.email = email
           THEN /\ Cardinality(outbox) < MaxTokens
                /\ outbox' = outbox \cup {make_token(email, "reset")}
           ELSE outbox' = outbox
    /\ eng' = [op |-> "request_password_reset"]
    /\ UNCHANGED <<user, next_user_id, verifications, today, program_vars,
                   log_vars>>

\* POST /auth/reset-password
reset_password(token, pw) ==
    /\ LET email == load_token(token, ResetMaxAge, "reset")
       IN  IF email = NoEmail
           THEN /\ eng' = [op |-> "reset_password",
                           flash |-> "Invalid or expired token."]
                /\ user' = user
           ELSE IF pw = "" \/ PasswordLen[pw] < 6
           THEN /\ eng' = [op |-> "reset_password",
                           flash |-> "Password too short."]
                /\ user' = user
           ELSE IF \A u \in user : u.email # email
           THEN /\ eng' = [op |-> "reset_password",
                           flash |-> "Account not found."]
                /\ user' = user
           ELSE \E u \in user :
                   /\ u.email = email
                   /\ user' = (user \ {u}) \cup
                          {[u EXCEPT !.password_hash =
                                        generate_password_hash(pw)]}
                   /\ eng' = [op |-> "reset_password", flash |->
                               "Password updated. You can now log in."]
    /\ UNCHANGED <<next_user_id, outbox, verifications, today, program_vars,
                   log_vars>>

\* Nobody has signed up yet.
InitAuth ==
    /\ eng = [op |-> "none"]
    /\ today = 1
    /\ workout = {}
    /\ set_log = {}
    /\ next_workout_id = 1
    /\ next_set_log_id = 1
    /\ program = {}
    /\ program_day = {}
    /\ program_exercise = {}
    /\ next_program_id = 1
    /\ next_program_day_id = 1
    /\ next_program_exercise_id = 1
    /\ req = [r \in Requests |-> IdleRequest]
    /\ user = {}
    /\ next_user_id = 1
    /\ outbox = {}
    /\ verifications = {}

\* The account requests, one after another, while the days pass.
NextAuth ==
    \/ \E email_field \in EmailFields, pw \in PasswordFields,
          sent \in BOOLEAN :
            signup(email_field, pw, sent)
    \/ \E email_field \in EmailFields, pw \in PasswordFields :
            login(email_field, pw)
    \/ \E token \in Tokens : verify_email(token)
    \/ \E email_field \in EmailFields :
            request_password_reset(email_field)
    \/ \E token \in Tokens, pw \in PasswordFields :
            reset_password(token, pw)
    \/ Tick

SpecAuth == InitAuth /\ [][NextAuth]_vars

----------------------------------------------------------------------------
(* Properties of the last-session lookup, checked under Spec *)

\* the sessions whose view of the store is examined: 0 sees the committed
\* rows only, a request sees those of its transaction as well
Views == {0} \cup Requests

\* the sets of the exercise the user has, among the set_log rows S
SetsOf(S, uid, exercise_id) ==
    {x \in S : x.user_id = uid /\ x.exercise_id = exercise_id}

\* the workouts of W in which the user logged the exercise
WorkoutsWith(W, S, uid, exercise_id) ==
    {w \in W : \E x \in SetsOf(S, uid, exercise_id) : x.workout_id = w.id}

\* those of them with the latest date
LatestWorkouts(W, S, uid, exercise_id) ==
    {w \in WorkoutsWith(W, S, uid, exercise_id) :
        \A w2 \in WorkoutsWith(W, S, uid, exercise_id) : w2.date <= w.date}

\* C9: get_last_session_sets returns exactly the user's sets of the exercise
\* that belong to one workout of the latest date among the workouts in which
\* the user logged the exercise, none missing, none from another workout,
\* ordered by set_number ascending; and the empty list when the user has no
\* set of the exercise.
C9_LastSessionLookup ==
    \A v \in Views, uid \in Users, e \in ExerciseIds :
        LET W == Visible(workout, v)
            S == Visible(set_log, v)
        IN  \A res \in get_last_session_sets(W, S, uid, e) :
                IF SetsOf(S, uid, e) = {}
                THEN res = << >>
                ELSE \E w \in LatestWorkouts(W, S, uid, e) :
                        LET ofw == {x \in SetsOf(S, uid, e) :
                                       x.workout_id = w.id}
                        IN  /\ {res[i] : i \in DOMAIN res} = ofw
                            /\ Len(res) = Cardinality(ofw)
                            /\ \A i, j \in DOMAIN res :
                                  i < j =>
                                      res[i].set_number <= res[j].set_number

C9_Witness ==
    LET W == Visible(workout, 0)
        S == Visible(set_log, 0)
    IN  /\ \A r \in Requests : req[r].pc = "idle"
        /\ \E res \in get_last_session_sets(W, S, 1, 1) :
              /\ Len(res) = 2
              /\ res[1].set_number = 1
              /\ res[2].set_number = 2
              /\ \E x \in SetsOf(S, 1, 1) : \E w1, w2 \in W :
                    /\ w1.id = x.workout_id
                    /\ w2.id = res[1].workout_id
                    /\ w1.date < w2.date

\* C10: when two or more workouts containing the exercise share the latest
\* date, get_last_session_sets returns the sets of the one created later
\* (the greater workout id), whatever the order in which the requests that
\* created them flushed their Workout row and inserted their SetLog rows.
C10_LaterCreatedWorkoutWins ==
    \A uid \in Users, e \in ExerciseIds :
        LET W == Visible(workout, 0)
            S == Visible(set_log, 0)
            latest == LatestWorkouts(W, S, uid, e)
        IN  Cardinality(latest) >= 2 =>
                \A res \in get_last_session_sets(W, S, uid, e) :
                    \A i \in DOMAIN res :
                        res[i].workout_id = MaxOf({w.id : w \in latest})

----------------------------------------------------------------------------
(* Properties of the logged sets, checked under Spec *)

\* the rows of a table that are committed
Persisted(rows) == {x \in rows : x.txn = 0}

\* C13: every persisted SetLog has set_number >= 1, and no two persisted
\* SetLog rows share the same (workout_id, exercise_id, set_number), also
\* when the day lists one exercise in more than one ProgramExercise row.
C13_SetNumbersUnique ==
    \A x \in Persisted(set_log) :
        /\ x.set_number >= 1
        /\ \A y \in Persisted(set_log) :
              (/\ x.workout_id = y.workout_id
               /\ x.exercise_id = y.exercise_id
               /\ x.set_number = y.set_number) => x = y

AddedFollow(r, pe, added, lists) ==
    \E l \in lists :
        LET targets == compute_session_targets(l, pe.rep_min, pe.rep_max,
                           ExerciseOf(pe.exercise_id), req[r].deload_now)
        IN  \A k \in DOMAIN added :
                /\ added[k].target_reps = targets[1]
                /\ added[k].progressed =
                       mark_progress(targets[1], added[k].reps,
                                     added[k].weight, targets[3])

\* C15: every SetLog a submission adds stores the rep target derived from
\* the user's last session of the exercise completed before the submission
\* (the committed rows; rep_min when there is none), and progressed as
\* mark_progress gives it against the top weight of that session: sets
\* written earlier in the same submission are never the last session.
C15_TargetsFromPriorSession ==
    [][\A r \in Requests :
          (/\ req[r].pc = "loop"
           /\ req'[r].pc = "loop"
           /\ req'[r].i = req[r].i + 1) =>
              LET pe == req[r].pes[req[r].i]
              IN  AddedFollow(r, pe, req'[r].pending,
                      get_last_session_sets(Visible(workout, 0),
                          Visible(set_log, 0), req[r].uid, pe.exercise_id))]_vars

\* the rows of transaction r as they are once committed
OwnCommitted(rows, r) ==
    {[x EXCEPT !.txn = 0] : x \in {y \in rows : y.txn = r}}

\* C17: saving a workout is all-or-nothing.  A step of a submission other
\* than its commit persists nothing; the commit persists the Workout row
\* and every set the submission wrote, together; a submission that ends,
\* by commit or by the rollback after a field failed to parse, leaves no
\* row of its transaction behind, so a failed one has persisted neither
\* its Workout nor any of its SetLog rows.
C17_AllOrNothing ==
    [][\A r \in Requests :
          req'[r] # req[r] =>
              /\ IF req[r].pc = "flushed"
                 THEN /\ \E w \in OwnCommitted(workout, r) :
                            w \in Persisted(workout')
                      /\ Persisted(workout') =
                            Persisted(workout) \cup OwnCommitted(workout, r)
                      /\ Persisted(set_log') =
                            Persisted(set_log) \cup OwnCommitted(set_log, r)
                 ELSE /\ Persisted(workout') = Persisted(workout)
                      /\ Persisted(set_log') = Persisted(set_log)
              /\ req'[r].pc = "idle" =>
                    \A x \in workout' \cup set_log' : x.txn # r]_vars

\* a submission was rolled back after its Workout row and a set of its
\* first exercise had been inserted
C17_Witness ==
    /\ \A r \in Requests : req[r].pc = "idle"
    /\ next_workout_id = 2
    /\ next_set_log_id = 2
    /\ workout = {}
    /\ set_log = {}

\* the rows of a table that belong to the user
RowsOfUser(rows, uid) == {x \in rows : x.user_id = uid}

\* C19: the lookups of user A return only SetLog rows whose user_id is A,
\* and they are the lookups of a store holding A's rows alone: whatever
\* workouts other users have logged for the same exercise, committed or in
\* flight, in any interleaving, A's last session, and with it A's
\* rep_target, next-weight suggestion and last_top_weight, are what they
\* would be without them.
C19_UserIsolation ==
    \A v \in Views, uid \in Users, e \in ExerciseIds :
        LET W == Visible(workout, v)
            S == Visible(set_log, v)
            mine == get_last_session_sets(W, S, uid, e)
            alone == get_last_session_sets(RowsOfUser(W, uid),
                                           RowsOfUser(S, uid), uid, e)
        IN  /\ \A res \in mine : \A i \in DOMAIN res : res[i].user_id = uid
            /\ mine = alone

\* both users have logged exercise 1, the second user on a later day and
\* with another best set than the first
C19_Witness ==
    \E x, y \in Persisted(set_log) : \E wx, wy \in Persisted(workout) :
        /\ x.user_id = 1 /\ x.exercise_id = 1 /\ wx.id = x.workout_id
        /\ y.user_id = 2 /\ y.exercise_id = 1 /\ wy.id = y.workout_id
        /\ wx.date < wy.date
        /\ x.reps # y.reps
        /\ \A res \in get_last_session_sets(Persisted(workout),
                           Persisted(set_log), 1, 1) :
              \E i \in DOMAIN res : res[i] = x

----------------------------------------------------------------------------
(* Properties of the volume logged, checked under SpecVolume *)

\* the sets a workout of the given week may hold for a program exercise:
\* target_sets, and in the deload week the least n >= 1 with n >= 0.6 *
\* target_sets
SetsAllowed(pe, prog, week_number) ==
    IF prog.deload_week # None /\ week_number = prog.deload_week
    THEN CHOOSE n \in 1..pe.target_sets :
             /\ 5 * n >= 3 * pe.target_sets
             /\ \A m \in 1..pe.target_sets :
                   5 * m >= 3 * pe.target_sets => n <= m
    ELSE pe.target_sets

\* C18: for each ProgramExercise a submission stores at most
\* sets_this_session sets, numbered within 1..sets_this_session; a set is
\* stored only with reps > 0 and weight > 0; in the deload week a set
\* numbered above the reduced count is never stored, whatever the form held.
C18_VolumeLimit ==
    \A w \in workout : \E day \in program_day : \E prog \in program :
        /\ day.id = w.program_day_id
        /\ prog.id = day.program_id
        /\ \A pe \in {q \in program_exercise : q.day_id = day.id} :
              LET rows == {x \in set_log : /\ x.workout_id = w.id
                                           /\ x.exercise_id = pe.exercise_id}
                  allowed == SetsAllowed(pe, prog, w.week_number)
              IN  /\ Cardinality(rows) <= allowed
                  /\ \A x \in rows : /\ x.set_number \in 1..allowed
                                      /\ x.reps > 0
                                      /\ x.weight > 0

\* a workout of the deload week is persisted with the two sets the reduced
\* count admits, for an exercise of three sets
C18_Witness ==
    \E w \in Persisted(workout) : \E prog \in program :
        /\ prog.deload_week = w.week_number
        /\ \E pe \in program_exercise :
              /\ pe.target_sets = 3
              /\ {x.set_number : x \in {y \in Persisted(set_log) :
                                            y.workout_id = w.id}} = {1, 2}

----------------------------------------------------------------------------
(* Properties of the page of a day, checked under SpecPage *)

\* the targets on the page are those the listed last session yields
PageAgrees ==
    eng.op = "page" =>
        \A i \in DOMAIN eng.per_ex :
            LET entry == eng.per_ex[i]
                again == compute_session_targets(entry.last_session_sets,
                             entry.pe.rep_min, entry.pe.rep_max,
                             ExerciseOf(entry.pe.exercise_id), eng.deload_now)
            IN  /\ entry.rep_target = again[1]
                /\ entry.next_weight = again[2]
                /\ entry.last_session_sets \in
                       get_last_session_sets(Visible(workout, 0),
                           Visible(set_log, 0), eng.uid, entry.pe.exercise_id)

----------------------------------------------------------------------------
(* Properties of the deload week, checked under SpecDeload *)

\* what is_deload_week answered is what deload_week of the program says
DeloadAnswer ==
    eng.op = "is_deload_week" =>
        (eng.result <=> (/\ eng.prog.deload_week # None
                         /\ eng.week_num = eng.prog.deload_week))

\* C12: is_deload_week(program, week) is true exactly when the program's
\* deload_week is not None and week equals it; once set_deload has cleared
\* the deload week of a program, it is false of that program for every
\* week, and once set_deload has scheduled week w it is true of week w only.
C12_DeloadWeek ==
    [][/\ DeloadAnswer'
       /\ (eng' # eng /\ eng'.op = "set_deload") =>
             \A prog \in program' :
                 prog.id = eng'.program_id =>
                     \A week_num \in 0..(MaxWeeks + 1) :
                         /\ eng'.flash = "Deload cleared for this program."
                               => ~is_deload_week(prog, week_num)
                         /\ eng'.flash = "Deload scheduled for week w."
                               => (is_deload_week(prog, week_num)
                                     <=> week_num = eng'.deload_week)]_vars

\* the deload week of a program was scheduled, and is_deload_week confirms
\* it of that week
C12_Witness ==
    /\ eng.op = "is_deload_week"
    /\ eng.result
    /\ eng.week_num = 2
    /\ eng.prog \in program

----------------------------------------------------------------------------
(* Properties of the exercises of a day, checked under SpecEdit *)

\* C16: after any sequence of edit_program_day_post requests with action
\* add or update_sets, every ProgramExercise has 0 < rep_min <= rep_max and
\* target_sets >= 1; an add with a missing exercise, rep_min <= 0,
\* rep_max < rep_min or target_sets <= 0, and an update_sets with
\* new_sets < 1, is rejected and leaves the table unchanged.
C16_ProgramExercisesValid ==
    [][/\ \A pe \in program_exercise' :
             /\ 0 < pe.rep_min
             /\ pe.rep_min <= pe.rep_max
             /\ pe.target_sets >= 1
       /\ (/\ eng' # eng
           /\ eng'.op = "edit"
           /\ eng'.flash \in {"Provide valid sets/rep range.",
                               "Sets must be >=1."})
             => program_exercise' = program_exercise]_vars

\* an exercise was added, its sets were raised, and a request for fewer
\* than one set has just been rejected
C16_Witness ==
    /\ eng.op = "edit"
    /\ eng.flash = "Sets must be >=1."
    /\ \E pe \in program_exercise :
          pe.target_sets = 2 /\ pe.rep_min = 1 /\ pe.rep_max = 2

----------------------------------------------------------------------------
(* Properties of the current week, checked under SpecWeek *)

\* C20: get_current_week returns 1 when the program has no start_date;
\* otherwise it returns floor(days since start_date / 7) + 1, raised to 1
\* when below and lowered to duration_weeks when above; and for every
\* program the returned week lies in 1..duration_weeks.
C20_CurrentWeekInRange ==
    eng.op = "week" =>
        LET prog == eng.prog
            by_days == ((eng.today - prog.start_date) \div 7) + 1
        IN  /\ prog.start_date = None => eng.week = 1
            /\ prog.start_date # None =>
                  eng.week = IF by_days < 1 THEN 1
                             ELSE IF by_days > prog.duration_weeks
                                  THEN prog.duration_weeks
                                  ELSE by_days
            /\ eng.week \in 1..prog.duration_weeks

----------------------------------------------------------------------------
(* Properties of the active program, checked under SpecActive *)

ActivePrograms(programs, uid) ==
    {p \in programs : p.user_id = uid /\ p.status = "active"}

\* C21: after any sequence of create_program and archive_program requests
\* each user has at most one program with status active; the request that
\* creates a program leaves every program the user had before archived.
C21_OneActiveProgram ==
    [][/\ \A uid \in Users :
             Cardinality(ActivePrograms(program', uid)) <= 1
       /\ next_program_id' # next_program_id =>
             \A new \in program' : \A old \in program' :
                 (/\ new.id = next_program_id
                  /\ old.id # new.id
                  /\ old.user_id = new.user_id) => old.status = "archived"]_vars

\* user 1 has created a program: the one held before is archived, the new
\* one is active
C21_Witness ==
    \E old, new \in program :
        /\ old.user_id = 1 /\ new.user_id = 1
        /\ old.id = 1 /\ new.id = 2
        /\ old.status = "archived"
        /\ new.status = "active"

----------------------------------------------------------------------------
(* Properties of the days and exercises of a program, checked under
   SpecProgram *)

\* the program_exercise rows of the days of a program, target_sets aside
ExercisesOfProgram(rows, days, prog) ==
    {[pe EXCEPT !.target_sets = 0] :
        pe \in {x \in rows : \E d \in days : /\ d.program_id = prog.id
                                               /\ d.id = x.day_id}}

\* C22: once a program is locked, no request adds, removes or reorders the
\* ProgramExercise rows of its days, target_sets being the only column that
\* may still change; and the locked flag never returns to false.
C22_LockedProgramFrozen ==
    [][\A prog \in program :
          prog.locked =>
              /\ \E q \in program' : q.id = prog.id /\ q.locked
              /\ ExercisesOfProgram(program_exercise', program_day, prog)
                    = ExercisesOfProgram(program_exercise, program_day,
                                         prog)]_vars

\* a step of one of the requests of the user that write days or exercises
DayOrExerciseRequest(uid) ==
    \/ \E program_id \in Users, day_id \in 1..MaxProgramDays :
          EditAdd(uid, program_id, day_id, 1, 1, 1, 1)
    \/ \E program_id \in Users, day_id \in 1..MaxProgramDays,
          pe_id \in 1..MaxProgramExercises, new_sets \in 1..MaxEditSets :
          EditUpdateSets(uid, program_id, day_id, pe_id, new_sets)
    \/ \E pe_id \in 1..MaxProgramExercises :
          delete_program_exercise(uid, pe_id)
    \/ \E day_id \in 1..MaxProgramDays, order \in SortOrders :
          sort_program_day(uid, day_id, order)
    \/ \E program_id \in Users, day_id \in 1..MaxProgramDays :
          remove_program_day(uid, program_id, day_id)
    \/ \E program_id \in Users : add_day(uid, program_id)

\* the user owning the program of the day, before or after the step
DayIsOf(day_id, uid) ==
    \E d \in program_day \cup program_day' : \E prog \in program :
        /\ d.id = day_id
        /\ prog.id = d.program_id
        /\ prog.user_id = uid

\* C23: a request that creates, changes or deletes a ProgramDay or a
\* ProgramExercise touches only rows of programs whose user_id is the
\* requesting user: every row that differs after the step is a day of a
\* program of the requester or an exercise of such a day.
C23_OnlyOwnRows ==
    [][\A uid \in Users :
          DayOrExerciseRequest(uid) =>
              /\ \A pe \in (program_exercise \ program_exercise')
                            \cup (program_exercise' \ program_exercise) :
                    DayIsOf(pe.day_id, uid)
              /\ \A d \in (program_day \ program_day')
                           \cup (program_day' \ program_day) :
                    DayIsOf(d.id, uid)]_vars

\* the program may be started by the user
MayStart(prog, uid) ==
    /\ prog.user_id = uid
    /\ ~prog.locked
    /\ \A d \in program_day :
          d.program_id = prog.id =>
              \E pe \in program_exercise : pe.day_id = d.id

\* C24: start_program sets locked to true and start_date to today when the
\* program is owned by the requester, is not locked and each of its days
\* has at least one ProgramExercise, and in every other case leaves the
\* program as it was; no step changes locked or start_date of a program
\* otherwise.
C24_StartProgram ==
    [][/\ \A uid \in Users, program_id \in Users :
             start_program(uid, program_id) =>
                 \A prog \in program :
                     prog.id = program_id =>
                         IF MayStart(prog, uid)
                         THEN program' = (program \ {prog}) \cup
                                  {[prog EXCEPT !.locked = TRUE,
                                                !.start_date = today]}
                         ELSE program' = program
       /\ \A prog \in program : \A q \in program' :
             (/\ q.id = prog.id
              /\ q.locked # prog.locked \/ q.start_date # prog.start_date)
                 => /\ MayStart(prog, prog.user_id)
                    /\ q.locked
                    /\ q.start_date = today]_vars

\* the program of user 1 was started on day 2; that of user 2 has a day
\* without exercises and is not started
C24_Witness ==
    \E p1, p2 \in program :
        /\ p1.id = 1 /\ p1.locked /\ p1.start_date = 2
        /\ p2.id = 2 /\ ~p2.locked
        /\ \E d \in program_day :
              /\ d.program_id = 2
              /\ \A pe \in program_exercise : pe.day_id # d.id
        /\ \E pe \in program_exercise : pe.day_id = 2

DaysOf(prog) == {d \in program_day : d.program_id = prog.id}

\* C25: the day_index values of the n days of a program are pairwise
\* distinct and are exactly 0..n-1, and the program's days_per_week is n.
C25_DayIndexes ==
    \A prog \in program :
        LET n == Cardinality(DaysOf(prog))
        IN  /\ \A d, e \in DaysOf(prog) :
                  d.day_index = e.day_index => d = e
            /\ {d.day_index : d \in DaysOf(prog)} = 0..(n - 1)
            /\ prog.days_per_week = n

\* C26: an exercise added to a day gets a position strictly greater than
\* that of every ProgramExercise already in the day, and the positions
\* within a day stay pairwise distinct.
C26_AddedLast ==
    [][/\ \A new \in program_exercise' \ program_exercise :
             \A old \in program_exercise :
                 old.day_id = new.day_id => new.position > old.position
       /\ \A pe, other \in program_exercise' :
             (pe.day_id = other.day_id /\ pe.position = other.position)
                 => pe.id = other.id]_vars

\* C27: the deload_week of a program is None or a week in
\* 1..duration_weeks.
C27_DeloadWeekInRange ==
    \A prog \in program :
        \/ prog.deload_week = None
        \/ prog.deload_week \in 1..prog.duration_weeks

\* the token is one the application mailed for the e-mail address, for
\* verification, not longer ago than verification allows
ValidVerifyToken(token, email) ==
    /\ token \in outbox
    /\ token.signed
    /\ token.purpose = "verify"
    /\ token.email = email
    /\ today - token.issued <= VerifyMaxAge

====
